---- MODULE Spec2Model ----
(***************************************************************************)
(* The three pipeline pages of the client (LoadFile.jsx, ChunkFile.jsx,    *)
(* ParseFile.jsx) as one state machine.  One page is mounted at a time     *)
(* (variable page, fixed at mount); its React state is the record load,    *)
(* chunk or parse, whose fields carry the names of the useState hooks.     *)
(* Every fetch is a record of net: the handler that issues it hands it to  *)
(* the remote service (Send), whose answer travels for any length of time  *)
(* and then resumes the handler's continuation (the *Done actions), in any *)
(* order.                                                                  *)
(*                                                                         *)
(* Encodings.  A nullable value is a sequence of length <= 1 (None, Some). *)
(* A registry list is Some(sequence of names) or None when the handler     *)
(* stored undefined.  A text is a sequence of string pieces, so that a     *)
(* template literal is the concatenation of its pieces.  The Chinese UI    *)
(* texts are written by ASCII keys (the source text is in the comment of   *)
(* each definition).                                                       *)
(***************************************************************************)
EXTENDS Naturals, Sequences, FiniteSets, TLC

\* Bound: number of operator actions that issue a request, per behaviour.
MaxOps == 2

\* Bound: number of edits of the Chunk page's form made while its advanced
\* options are shown (a method change, an option typed or selected, hiding
\* or showing the options), per behaviour.
MaxEdits == 4

VARIABLES page, load, chunk, parse, net, store, ops, applied, edits

vars == <<page, load, chunk, parse, net, store, ops, applied, edits>>

----------------------------------------------------------------------------
\* Values

None == <<>>
Some(v) == <<v>>

\* Artifact names of the remote store, in the order the service lists them.
NameOrder == <<"a", "b">>
Names == {NameOrder[i] : i \in 1..Len(NameOrder)}

\* A list response: the names of S in the service's order.
ListOf(S) == SelectSeq(NameOrder, LAMBDA x : x \in S)

Elems(s) == {s[i] : i \in 1..Len(s)}

\* The select options the operator tries in a run (an input bound).
MethodsTried == {"pymupdf", "unstructured", "by_pages", "fixed_size", "all_text"}

\* Server-supplied `detail` fields of an error body ("" = the body has none).
Details == {"", "bad input", "CSV parse failed"}

\* The details the mounted page's handlers can tell apart: only LoadFile.jsx
\* looks for 'CSV' in the message.
PageDetails == IF page = "load" THEN Details ELSE {"", "bad input"}

\* error.message.includes('CSV') on a text made of pieces.
IncludesCSV(msg) == \E i \in 1..Len(msg) : msg[i] = "CSV parse failed"

\* `HTTP error! status: ${response.status}`
HttpMsg(code) == <<"HTTP error! status: ", code>>

\* The message of the TypeError a rejected fetch carries.
FetchRejectMsg == <<"Failed to fetch">>

\* The ProcessingResult / artifact body answered to request id for name n.
Content(n, id) == [name |-> n, from |-> id, segs |-> TRUE]

\* The JSON body of an error response, when a handler stores it as a result.
ErrorBody(id) == [name |-> "", from |-> id, segs |-> FALSE]

\* A 2xx body for name n that lacks the array of segments.
Shapeless(n, id) == [name |-> n, from |-> id, segs |-> FALSE]

\* A stored result whose array of segments is missing or is not an array.
LacksSegments(result) == result # None /\ ~result[1].segs

----------------------------------------------------------------------------
\* Requests in flight

\* A fetch issued by a handler; cap is what the handler's closure captured.
Req(id, kind, name, cap) ==
  [id |-> id, kind |-> kind, name |-> name, cap |-> cap,
   st |-> "sent", code |-> "", detail |-> "", docs |-> None, body |-> None]

InFlight(k) == {q \in net : q.kind = k}

\* What `await fetch(...)` of request q can resume with: the answer of the
\* service, or a rejection (network failure, the answer is lost).
Outcomes(q) ==
  IF q.kind = "details" THEN {q} ELSE {q, [q EXCEPT !.st = "neterr"]}

\* error.message of the Error thrown for a non-2xx answer that is not read.
ThrownHttp(r) == HttpMsg(r.code)

\* error.message in the catch block of a handler that checks response.ok.
CaughtMsg(r) == IF r.st = "neterr" THEN FetchRejectMsg ELSE ThrownHttp(r)

----------------------------------------------------------------------------
\* The remote service and its store (the other side of the fetch contract)

\* The store namespace a request of the mounted page addresses.
Namespace(r) ==
  IF page = "parse" THEN "parsed"
  ELSE IF page = "chunk" /\ r.kind # "listLoaded" THEN "chunked"
  ELSE "loaded"

PostKinds == {"load", "chunk", "parse"}
ListKinds == {"list", "listLoaded", "listChunked"}

\* The name under which the service stores the artifact a POST produces.
ArtifactName(r) == r.name

\* The 2xx answer of the service to request q, were it handled now.
OkAnswer(q) ==
  CASE q.kind \in PostKinds ->
         [q EXCEPT !.st = "ok", !.code = "200",
                   !.body = Some(Content(ArtifactName(q), q.id))]
    [] q.kind \in ListKinds ->
         [q EXCEPT !.st = "ok", !.code = "200",
                   !.docs = Some(ListOf(store[Namespace(q)]))]
    [] q.kind = "detail" ->
         [q EXCEPT !.st = "ok", !.code = "200", !.body = Some(Content(q.name, q.id))]
    [] OTHER -> [q EXCEPT !.st = "ok", !.code = "200"]

\* A non-2xx answer whose JSON body carries detail d ("" = none); a detail or
\* delete of an absent name is a 404 saying so.
ErrorAnswer(q, d) ==
  LET absent == q.kind \in {"detail", "delete"} /\ q.name \notin store[Namespace(q)] IN
  [q EXCEPT !.st = "http",
            !.code = IF absent THEN "404" ELSE "500",
            !.detail = IF absent THEN "not found" ELSE d,
            !.body = Some(ErrorBody(q.id))]

\* A 2xx answer to a view whose body has another shape than a result.
ShapelessAnswer(q) ==
  [q EXCEPT !.st = "ok", !.code = "200", !.body = Some(Shapeless(q.name, q.id))]

\* The answers the service can give to q: a detail of an absent name is never
\* a 2xx; a delete of an absent name may be answered either way.
Answers(q) ==
  (IF q.kind = "detail" /\ q.name \notin store[Namespace(q)] THEN {}
   ELSE IF q.kind = "detail" THEN {OkAnswer(q), ShapelessAnswer(q)}
   ELSE {OkAnswer(q)})
    \cup {ErrorAnswer(q, d) : d \in IF q.kind \in PostKinds THEN PageDetails ELSE {""}}

\* The store once the service has given answer r.
StoreAfter(r) ==
  IF r.st # "ok" THEN store
  ELSE CASE r.kind \in PostKinds ->
              [store EXCEPT ![Namespace(r)] = @ \cup {ArtifactName(r)}]
         [] r.kind = "delete" ->
              [store EXCEPT ![Namespace(r)] = @ \ {r.name}]
         [] OTHER -> store

\* fetch(q) with the requests `rest` still in flight: the service handles the
\* request as it is issued; its answer then travels for any length of time.
Send(q, rest) ==
  \E r \in Answers(q) :
    /\ net' = rest \cup {r}
    /\ store' = StoreAfter(r)

\* A continuation that ends without a new fetch.
Finish(q) ==
  /\ net' = net \ {q}
  /\ store' = store

\* Ghost: the completion handlers of result-producing requests, in the order
\* they ran (last) against the latest issued one that has run (max).
Apply(r) ==
  [applied EXCEPT !.last = r.id,
                  !.max = IF r.id > applied.max THEN r.id ELSE applied.max]

\* A registry refresh of the Load or Chunk page, issued now. Ghost: its cap
\* holds the number of operations issued before it, which orders the
\* refreshes by the time they were issued (the store changes only when an
\* operation is issued).
Refresh(kind) == Req(0, kind, "", Some(ops))

\* Ghost: the registry list now comes from the answer to refresh r.
Listed(r) == [applied EXCEPT !.listed = r.cap[1]]

----------------------------------------------------------------------------
\* LoadFile.jsx

\* Files the operator can pick in the Load page's file input.
LoadFiles == {[name |-> "b", ext |-> "pdf"], [name |-> "b", ext |-> "txt"]}

\* The options of the loading-method select shown for a pdf file.
PdfLoadingMethods == {"pymupdf", "pypdf", "pdfplumber", "unstructured"}

\* The files of the accepted types (accept=".pdf,.txt,.csv,.md") the operator
\* picks when working on the loading options.
LoadFormFiles == {[name |-> "b", ext |-> e] : e \in {"pdf", "txt", "csv", "md"}}

\* A JavaScript value that is an array of strings, or one string (held as the
\* only item).
JsArray(items) == [isArray |-> TRUE, items |-> items]
JsString(str) == [isArray |-> FALSE, items |-> <<str>>]

\* The options of the languages select, and those tried in a run.
LanguageOptions == {"eng", "chi_sim", "chi_tra", "jpn", "kor"}
LanguagesTried == {"eng", "chi_sim"}

\* The state after the first render: the useState initial values. Of the
\* three configuration records, the fields kept are one per kind of input: a
\* select of textConfig, the strategy and languages of unstructuredConfig,
\* the delimiter and the hasHeader of csvConfig ("" is the empty string,
\* "true" / "false" the booleans a checkbox stores).
LoadInit ==
  [file |-> None, loadingMethod |-> "pymupdf", loadedContent |-> None,
   status |-> <<>>, documents |-> Some(<<>>), activeTab |-> "preview",
   selectedDoc |-> None, fileType |-> "",
   textConfig |-> [encoding |-> "utf-8"],
   unstructuredConfig |-> [strategy |-> "fast", languages |-> JsArray(<<"eng">>)],
   csvConfig |-> [delimiter |-> "", hasHeader |-> ""]]

\* The status texts of the Load page.
LoadMsgMissing == <<"MISSING: select all required options">>   \* '请选择所有必需的选项'
LoadMsgLoading == <<"LOADING...">>                             \* '加载中...'
LoadMsgSuccess == <<"File loaded successfully!">>              \* '文件加载成功！'
LoadMsgDeleted == <<"Document deleted successfully">>
LoadMsgViewing == <<"Loading document...">>

\* The status the catch block of handleProcess stores for error.message msg.
LoadErrorStatus(msg) ==
  IF IncludesCSV(msg)
  THEN <<"CSV load error: ">> \o msg \o <<"please check: encoding, delimiter, special characters, column names">>
  ELSE <<"ERROR: ">> \o msg

\* error.message in handleProcess: errorData.detail || `HTTP error! ...`.
LoadProcessMsg(r) ==
  IF r.st = "neterr" THEN FetchRejectMsg
  ELSE IF r.detail # "" THEN <<r.detail>> ELSE HttpMsg(r.code)

\* The submit button's `disabled={!file}`.
LoadSubmitEnabled == load.file # None

\* What the preview tab of renderRightPanel renders: the placeholder image
\* without a result, else the document information and one row per element of
\* loadedContent.chunks, whose map throws a TypeError when chunks is missing.
LoadPreview ==
  IF load.activeTab # "preview" THEN "hidden"
  ELSE IF load.loadedContent = None THEN "placeholder"
  ELSE IF LacksSegments(load.loadedContent) THEN "throws"
  ELSE "segments"

\* The documents tab maps over documents: with undefined stored there the
\* render throws, as does the preview of a result without chunks; the page is
\* then unmounted and its state is gone, so nothing of the page happens
\* afterwards.
LoadCrashed ==
  \/ load.activeTab = "documents" /\ load.documents = None
  \/ LoadPreview = "throws"

\* A handleFileChange that leaves the loading method as it is.
LoadHandleFileChangeKeeping(f) ==
  load' = [load EXCEPT !.fileType = f.ext, !.file = Some(f)]

\* handleFileChange with file f selected.
LoadHandleFileChange(f) ==
  load' = [load EXCEPT
             !.fileType = f.ext,
             !.file = Some(f),
             !.loadingMethod =
                IF f.ext = "txt" THEN "text"
                ELSE IF f.ext = "pdf" THEN "pymupdf"
                ELSE IF f.ext = "csv" THEN "csv"
                ELSE IF f.ext = "md" THEN "md"
                ELSE @]

\* onChange of the file input: handleFileChange.
LoadFileChange ==
  /\ page = "load"
  /\ ~LoadCrashed
  /\ \E f \in LoadFiles : LoadHandleFileChange(f)
  /\ UNCHANGED <<page, chunk, parse, net, store, ops, applied, edits>>

\* The same, among the files of the four accepted types, as an edit of the
\* loading options.
LoadFormFileChange ==
  /\ page = "load"
  /\ ~LoadCrashed
  /\ edits < MaxEdits
  /\ \E f \in LoadFormFiles \ {g \in LoadFormFiles : load.file = Some(g)} :
       LoadHandleFileChange(f)
  /\ edits' = edits + 1
  /\ UNCHANGED <<page, chunk, parse, net, store, ops, applied>>

\* onChange of the loading-method select (rendered enabled for pdf only), any
\* of its options, as an edit of the loading options.
LoadFormSetLoadingMethod ==
  /\ page = "load"
  /\ ~LoadCrashed
  /\ load.fileType = "pdf"
  /\ edits < MaxEdits
  /\ \E m \in PdfLoadingMethods \ {load.loadingMethod} :
       load' = [load EXCEPT !.loadingMethod = m]
  /\ edits' = edits + 1
  /\ UNCHANGED <<page, chunk, parse, net, store, ops, applied>>

\* handleUnstructuredConfigChange and handleCsvConfigChange: the field named
\* by the event's target becomes its checked flag for a checkbox, its value
\* (a string) for any other input.
ConfigAfter(config, name, type, value, checked) ==
  [config EXCEPT ![name] = IF type = "checkbox"
                           THEN (IF checked THEN "true" ELSE "false")
                           ELSE value]

\* onChange of the languages select, rendered for a pdf file loaded with
\* unstructured: e.target.value is the option's value, a string.
LoadSetLanguages ==
  /\ page = "load"
  /\ ~LoadCrashed
  /\ load.fileType = "pdf"
  /\ load.loadingMethod = "unstructured"
  /\ edits < MaxEdits
  /\ \E l \in LanguageOptions \cap LanguagesTried :
       load' = [load EXCEPT !.unstructuredConfig =
                  ConfigAfter(@, "languages", "select-one", JsString(l), FALSE)]
  /\ edits' = edits + 1
  /\ UNCHANGED <<page, chunk, parse, net, store, ops, applied>>

\* onChange of the hasHeader checkbox, rendered for a csv file: it is shown
\* checked when hasHeader === true, and a click flips what is shown.
LoadSetHasHeader ==
  /\ page = "load"
  /\ ~LoadCrashed
  /\ load.fileType = "csv"
  /\ edits < MaxEdits
  /\ load' = [load EXCEPT !.csvConfig =
                 ConfigAfter(@, "hasHeader", "checkbox", "",
                             ~(load.csvConfig.hasHeader = "true"))]
  /\ edits' = edits + 1
  /\ UNCHANGED <<page, chunk, parse, net, store, ops, applied>>

\* A FormData that carries the csv configuration whatever the method.
LoadFormDataWithCsv ==
  [file |-> load.file[1],
   loading_method |-> load.loadingMethod,
   strategy |->
     IF load.loadingMethod = "unstructured"
     THEN Some(load.unstructuredConfig.strategy) ELSE None,
   chunking_options |->
     IF load.loadingMethod = "unstructured"
     THEN Some([languages |-> load.unstructuredConfig.languages]) ELSE None,
   text_config |-> IF load.loadingMethod = "text" THEN Some(load.textConfig) ELSE None,
   csv_config |-> Some(load.csvConfig)]

\* The FormData handleProcess posts: the file, the method, and the entries
\* appended for the method (None: no such entry).
LoadFormData ==
  [file |-> load.file[1],
   loading_method |-> load.loadingMethod,
   strategy |->
     IF load.loadingMethod = "unstructured"
     THEN Some(load.unstructuredConfig.strategy) ELSE None,
   chunking_options |->
     IF load.loadingMethod = "unstructured"
     THEN Some([languages |-> load.unstructuredConfig.languages]) ELSE None,
   text_config |->
     IF load.loadingMethod \notin {"unstructured"} /\ load.loadingMethod = "text"
     THEN Some(load.textConfig) ELSE None,
   csv_config |->
     IF load.loadingMethod \notin {"unstructured", "text"} /\ load.loadingMethod = "csv"
     THEN Some(load.csvConfig) ELSE None]

\* onChange of the loading-method select, rendered enabled for pdf only.
LoadSetLoadingMethod ==
  /\ page = "load"
  /\ ~LoadCrashed
  /\ load.fileType = "pdf"
  /\ \E m \in PdfLoadingMethods \cap MethodsTried :
       load' = [load EXCEPT !.loadingMethod = m]
  /\ UNCHANGED <<page, chunk, parse, net, store, ops, applied, edits>>

\* The two tab buttons of renderRightPanel.
LoadSetActiveTab ==
  /\ page = "load"
  /\ ~LoadCrashed
  /\ \E t \in {"preview", "documents"} : load' = [load EXCEPT !.activeTab = t]
  /\ UNCHANGED <<page, chunk, parse, net, store, ops, applied, edits>>

\* A handleProcess whose early return also drops the displayed content.
LoadHandleProcessDropping ==
  IF load.file = None \/ load.loadingMethod = ""
  THEN /\ load' = [load EXCEPT !.status = LoadMsgMissing, !.loadedContent = None]
       /\ UNCHANGED <<net, store, ops>>
  ELSE /\ ops < MaxOps
       /\ load' = [load EXCEPT !.status = LoadMsgLoading, !.loadedContent = None]
       /\ Send(Req(ops + 1, "load", load.file[1].name, Some(LoadFormData)), net)
       /\ ops' = ops + 1

\* handleProcess up to its first await.
LoadHandleProcess ==
  IF load.file = None \/ load.loadingMethod = ""
  THEN /\ load' = [load EXCEPT !.status = LoadMsgMissing]
       /\ UNCHANGED <<net, store, ops>>
  ELSE /\ ops < MaxOps
       /\ load' = [load EXCEPT !.status = LoadMsgLoading, !.loadedContent = None]
       /\ Send(Req(ops + 1, "load", load.file[1].name, Some(LoadFormData)), net)
       /\ ops' = ops + 1

\* A click on the submit button.
LoadClickProcess ==
  /\ page = "load"
  /\ ~LoadCrashed
  /\ LoadSubmitEnabled
  /\ LoadHandleProcess
  /\ UNCHANGED <<page, chunk, parse, applied, edits>>

\* handleProcess invoked while the button is disabled (not through a click).
LoadCallProcess ==
  /\ page = "load"
  /\ ~LoadCrashed
  /\ ~LoadSubmitEnabled
  /\ LoadHandleProcess
  /\ UNCHANGED <<page, chunk, parse, applied, edits>>

\* handleProcess after `await fetch(.../load)`.
LoadProcessDoneWith(q, r) ==
  /\ page = "load"
  /\ ~LoadCrashed
  /\ q \in InFlight("load")
  /\ r \in Outcomes(q)
  /\ /\ applied' = Apply(r)
     /\ IF r.st = "ok"
        THEN /\ load' = [load EXCEPT !.loadedContent = r.body,
                                     !.status = LoadMsgSuccess,
                                     !.activeTab = "preview"]
             /\ Send(Refresh("list"), net \ {q})
        ELSE /\ load' = [load EXCEPT !.status = LoadErrorStatus(LoadProcessMsg(r))]
             /\ Finish(q)
  /\ UNCHANGED <<page, chunk, parse, ops, edits>>

LoadProcessDone == \E q \in net : \E r \in Outcomes(q) : LoadProcessDoneWith(q, r)

\* fetchDocuments after `await fetch(.../documents?type=loaded)`.
LoadFetchDocumentsDoneWith(q, r) ==
  /\ page = "load"
  /\ ~LoadCrashed
  /\ q \in InFlight("list")
  /\ r \in Outcomes(q)
  /\ /\ load' = IF r.st = "neterr" THEN load
                ELSE [load EXCEPT !.documents = r.docs]
     /\ applied' = IF r.st = "neterr" THEN applied ELSE Listed(r)
     /\ Finish(q)
  /\ UNCHANGED <<page, chunk, parse, ops, edits>>

LoadFetchDocumentsDone == \E q \in net : \E r \in Outcomes(q) : LoadFetchDocumentsDoneWith(q, r)

\* The documents whose View / Delete buttons are rendered.
LoadListed ==
  IF load.activeTab = "documents" /\ load.documents # None
  THEN Elems(load.documents[1]) ELSE {}

\* handleDeleteDocument up to its await; the closure holds selectedDoc.
LoadDeleteDocument ==
  /\ page = "load"
  /\ ops < MaxOps
  /\ \E d \in LoadListed :
       Send(Req(ops + 1, "delete", d, load.selectedDoc), net)
  /\ ops' = ops + 1
  /\ UNCHANGED <<page, load, chunk, parse, applied, edits>>

\* handleDeleteDocument after `await fetch(..., DELETE)`.
LoadDeleteDoneWith(q, r) ==
  /\ page = "load"
  /\ ~LoadCrashed
  /\ q \in InFlight("delete")
  /\ r \in Outcomes(q)
  /\ IF r.st = "ok"
     THEN /\ load' = IF r.cap = Some(r.name)
                     THEN [load EXCEPT !.status = LoadMsgDeleted,
                                       !.selectedDoc = None,
                                       !.loadedContent = None]
                     ELSE [load EXCEPT !.status = LoadMsgDeleted]
          /\ Send(Refresh("list"), net \ {q})
     ELSE /\ load' = [load EXCEPT !.status =
                         <<"Error deleting document: ">> \o CaughtMsg(r)]
          /\ Finish(q)
  /\ UNCHANGED <<page, chunk, parse, ops, applied, edits>>

LoadDeleteDone == \E q \in net : \E r \in Outcomes(q) : LoadDeleteDoneWith(q, r)

\* handleViewDocument up to its await.
LoadViewDocument ==
  /\ page = "load"
  /\ ops < MaxOps
  /\ \E d \in LoadListed :
       Send(Req(ops + 1, "detail", d, None), net)
  /\ load' = [load EXCEPT !.status = LoadMsgViewing]
  /\ ops' = ops + 1
  /\ UNCHANGED <<page, chunk, parse, applied, edits>>

\* handleViewDocument after `await fetch(.../documents/<name>.json)`.
LoadViewDoneWith(q, r) ==
  /\ page = "load"
  /\ ~LoadCrashed
  /\ q \in InFlight("detail")
  /\ r \in Outcomes(q)
  /\ /\ applied' = Apply(r)
     /\ load' = IF r.st = "ok"
                THEN [load EXCEPT !.selectedDoc = Some(r.name),
                                  !.loadedContent = r.body,
                                  !.activeTab = "preview",
                                  !.status = <<>>]
                ELSE [load EXCEPT !.status =
                         <<"Error loading document: ">> \o CaughtMsg(r)]
     /\ Finish(q)
  /\ UNCHANGED <<page, chunk, parse, ops, edits>>

LoadViewDone == \E q \in net : \E r \in Outcomes(q) : LoadViewDoneWith(q, r)

----------------------------------------------------------------------------
\* ChunkFile.jsx

\* The options of the chunking-method select.
ChunkingOptions ==
  {"by_pages", "fixed_size", "by_paragraphs", "by_sentences", "semantic", "hybrid"}

\* A text of the advanced options is the sequence of its characters; "NL" is
\* the newline character, "BSL" the backslash, "CJK." "CJK!" "CJK?" the
\* full-width full stop, exclamation mark and question mark.
Custom == <<"c", "u", "s", "t", "o", "m">>                    \* 'custom'

ParagraphSeparatorOptions ==
  {<<"BSL", "n", "BSL", "n">>, <<"BSL", "n">>, <<"#", "#", "#">>, Custom}
SentenceSeparatorOptions ==
  {<<"CJK.", "|", "CJK!", "|", "CJK?">>, <<"NL">>, <<".", "|", "!", "|", "?">>, Custom}
SemanticSentenceSeparatorOptions ==
  {<<"CJK.", "|", "CJK!", "|", "CJK?">>, <<"NL">>, <<".", "|", "!", "|", "?">>, Custom}
HybridParagraphSeparatorOptions ==
  {<<"NL", "NL">>, <<"NL">>, <<"#", "#", "#">>, Custom}
HybridSentenceSeparatorOptions ==
  {<<"CJK.", "|", "CJK!", "|", "CJK?">>, <<"NL">>, <<".", "|", "!", "|", "?">>, Custom}

\* The initial values of the numeric options; a threshold is in hundredths.
ChunkSizeDefault == 1000
ChunkOverlapDefault == 200
SemanticThresholdDefault == 70
SemanticChunkSizeDefault == 1000
HybridChunkSizeDefault == 1000

\* The min / max attributes of the number inputs.
ChunkSizeMin == 100
ChunkSizeMax == 5000
ChunkOverlapMin == 0
ChunkOverlapMax == 1000
SemanticThresholdMin == 0
SemanticThresholdMax == 100

\* What the operator types or selects in the advanced options in a run
\* (input bounds): numbers inside and outside the declared ranges, the option
\* 'custom' and one other option per select, one custom text.
SizesTried == {50, 1000, 6000}
OtherSizesTried == {1000, 2000}
OverlapsTried == {200, 2000}
ThresholdsTried == {70, 150}
PresetsTried == {Custom, <<"#", "#", "#">>, <<".", "|", "!", "|", "?">>}
CustomsTried == {<<"x", "|", "y">>}

\* The state after the first render: the useState initial values. Of the
\* advanced options, those the request body carries in the same way as one
\* modelled here are left out (the min / max sizes, the page-merge options,
\* the keep-separator flags, the semantic and hybrid overlaps).
ChunkInit ==
  [loadedDocuments |-> Some(<<>>), selectedDoc |-> "", chunkingOption |-> "by_pages",
   chunks |-> None, status |-> <<>>, activeTab |-> "chunks",
   processingStatus |-> <<>>, chunkedDocuments |-> Some(<<>>),
   showAdvancedOptions |-> FALSE,
   chunkSize |-> ChunkSizeDefault, chunkOverlap |-> ChunkOverlapDefault,
   semanticThreshold |-> SemanticThresholdDefault,
   semanticChunkSize |-> SemanticChunkSizeDefault,
   hybridChunkSize |-> HybridChunkSizeDefault,
   paragraphSeparator |-> <<"BSL", "n", "BSL", "n">>,
   customParagraphSeparator |-> <<>>,
   sentenceSeparator |-> <<"CJK.", "|", "CJK!", "|", "CJK?">>,
   customSentenceSeparator |-> <<>>,
   semanticSentenceSeparator |-> <<"CJK.", "|", "CJK!", "|", "CJK?">>,
   semanticCustomSentenceSeparator |-> <<>>,
   hybridParagraphSeparator |-> <<"NL", "NL">>,
   hybridCustomParagraphSeparator |-> <<>>,
   hybridSentenceSeparator |-> <<"CJK.", "|", "CJK!", "|", "CJK?">>,
   hybridCustomSentenceSeparator |-> <<>>]

\* String.prototype.split('|'): the pieces of s between the bars.
RECURSIVE Split(_)
Split(s) ==
  IF \A i \in 1..Len(s) : s[i] # "|"
  THEN <<s>>
  ELSE LET i == CHOOSE j \in 1..Len(s) :
                  s[j] = "|" /\ \A k \in 1..(j - 1) : s[k] # "|"
       IN <<SubSeq(s, 1, i - 1)>> \o Split(SubSeq(s, i + 1, Len(s)))

\* preset === 'custom' ? custom : preset
ParagraphSeparatorSent(preset, custom) ==
  IF preset = Custom THEN custom ELSE preset

\* A resolution that sends the custom text as one piece, bars included.
SentenceSeparatorsSentUnsplit(preset, custom) ==
  IF preset = Custom THEN <<custom>> ELSE Split(preset)

\* preset === 'custom' ? custom.split('|') : preset.split('|')
SentenceSeparatorsSent(preset, custom) ==
  IF preset = Custom THEN Split(custom) ELSE Split(preset)

\* The JSON body handleChunk posts.
ChunkRequestBody ==
  [chunking_option |-> chunk.chunkingOption,
   chunk_size |-> chunk.chunkSize,
   chunk_overlap |-> chunk.chunkOverlap,
   semantic_threshold |-> chunk.semanticThreshold,
   semantic_chunk_size |-> chunk.semanticChunkSize,
   hybrid_chunk_size |-> chunk.hybridChunkSize,
   paragraph_separator |->
     ParagraphSeparatorSent(chunk.paragraphSeparator, chunk.customParagraphSeparator),
   sentence_separators |->
     SentenceSeparatorsSent(chunk.sentenceSeparator, chunk.customSentenceSeparator),
   semantic_sentence_separators |->
     SentenceSeparatorsSent(chunk.semanticSentenceSeparator,
                            chunk.semanticCustomSentenceSeparator),
   hybrid_paragraph_separator |->
     ParagraphSeparatorSent(chunk.hybridParagraphSeparator,
                            chunk.hybridCustomParagraphSeparator),
   hybrid_sentence_separators |->
     SentenceSeparatorsSent(chunk.hybridSentenceSeparator,
                            chunk.hybridCustomSentenceSeparator)]

\* The status texts of the Chunk page.
ChunkMsgMissing == <<"MISSING: select a document and a chunking method">>  \* '请选择文档和分块方法'
ChunkMsgProcessing == <<"PROCESSING...">>                                  \* '处理中...'
ChunkMsgSuccess == <<"Chunking done!">>                                    \* '分块完成！'
ChunkMsgDeleted == <<"Document deleted">>                                  \* '文档删除成功'

\* The submit button's `disabled={!selectedDoc}`.
ChunkSubmitEnabled == chunk.selectedDoc # ""

\* What the chunks tab renders: the placeholder image without a result, else
\* the document information and, only if chunks.chunks is an array, its rows.
ChunkPreview ==
  IF chunk.activeTab # "chunks" THEN "hidden"
  ELSE IF chunk.chunks = None THEN "placeholder"
  ELSE IF LacksSegments(chunk.chunks) THEN "information only"
  ELSE "segments"

\* The render maps over loadedDocuments: with undefined stored there it throws
\* and the page is unmounted; its state is gone, so nothing of the page
\* happens afterwards.
ChunkCrashed == chunk.loadedDocuments = None

\* onChange of the document select: the empty option or a loaded document.
ChunkSelectDoc ==
  /\ page = "chunk"
  /\ ~ChunkCrashed
  /\ \E d \in {""} \cup Elems(chunk.loadedDocuments[1]) :
       chunk' = [chunk EXCEPT !.selectedDoc = d]
  /\ UNCHANGED <<page, load, parse, net, store, ops, applied, edits>>

\* The methods the operator selects in a run (an input bound): all of them
\* once the advanced options are shown, where the method decides the inputs.
ChunkMethodsTried ==
  IF chunk.showAdvancedOptions THEN ChunkingOptions \ {chunk.chunkingOption}
  ELSE ChunkingOptions \cap MethodsTried

\* A method select that also puts the chunk size back to its initial value.
ChunkSetChunkingOptionResettingSize ==
  /\ page = "chunk"
  /\ ~ChunkCrashed
  /\ chunk.showAdvancedOptions => edits < MaxEdits
  /\ \E m \in ChunkMethodsTried :
       chunk' = [chunk EXCEPT !.chunkingOption = m, !.chunkSize = ChunkSizeDefault]
  /\ edits' = IF chunk.showAdvancedOptions THEN edits + 1 ELSE edits
  /\ UNCHANGED <<page, load, parse, net, store, ops, applied>>

\* A method select that also puts the by_sentences separator back to its
\* initial preset and empties its custom text.
ChunkSetChunkingOptionResettingSeparator ==
  /\ page = "chunk"
  /\ ~ChunkCrashed
  /\ chunk.showAdvancedOptions => edits < MaxEdits
  /\ \E m \in ChunkMethodsTried :
       chunk' = [chunk EXCEPT !.chunkingOption = m,
                              !.sentenceSeparator = ChunkInit.sentenceSeparator,
                              !.customSentenceSeparator = <<>>]
  /\ edits' = IF chunk.showAdvancedOptions THEN edits + 1 ELSE edits
  /\ UNCHANGED <<page, load, parse, net, store, ops, applied>>

\* onChange of the chunking-method select.
ChunkSetChunkingOption ==
  /\ page = "chunk"
  /\ ~ChunkCrashed
  /\ chunk.showAdvancedOptions => edits < MaxEdits
  /\ \E m \in ChunkMethodsTried :
       chunk' = [chunk EXCEPT !.chunkingOption = m]
  /\ edits' = IF chunk.showAdvancedOptions THEN edits + 1 ELSE edits
  /\ UNCHANGED <<page, load, parse, net, store, ops, applied>>

\* The button that shows or hides the advanced options.
ChunkToggleAdvanced ==
  /\ page = "chunk"
  /\ ~ChunkCrashed
  /\ edits < MaxEdits
  /\ chunk' = [chunk EXCEPT !.showAdvancedOptions = ~@]
  /\ edits' = edits + 1
  /\ UNCHANGED <<page, load, parse, net, store, ops, applied>>

\* onChange of an input of renderAdvancedOptions, which returns null unless
\* the options are shown: the state named field becomes the value typed or
\* selected. Each input below is rendered in the block of its method(s).
ChunkEdit(field, values) ==
  /\ page = "chunk"
  /\ ~ChunkCrashed
  /\ chunk.showAdvancedOptions
  /\ edits < MaxEdits
  /\ \E v \in values \ {chunk[field]} : chunk' = [chunk EXCEPT ![field] = v]
  /\ edits' = edits + 1
  /\ UNCHANGED <<page, load, parse, net, store, ops, applied>>

\* The number inputs: setX(Number(e.target.value)).
ChunkSetChunkSize ==
  /\ chunk.chunkingOption \in {"fixed_size", "by_sentences"}
  /\ ChunkEdit("chunkSize", SizesTried)

ChunkSetChunkOverlap ==
  /\ chunk.chunkingOption \in {"fixed_size", "by_sentences"}
  /\ ChunkEdit("chunkOverlap", OverlapsTried)

\* A semantic chunk size input that writes the chunk size of fixed_size and
\* by_sentences as well.
ChunkSetSemanticChunkSizeShared ==
  /\ chunk.chunkingOption \in {"semantic"}
  /\ page = "chunk"
  /\ ~ChunkCrashed
  /\ chunk.showAdvancedOptions
  /\ edits < MaxEdits
  /\ \E v \in OtherSizesTried \ {chunk.semanticChunkSize} :
       chunk' = [chunk EXCEPT !.semanticChunkSize = v, !.chunkSize = v]
  /\ edits' = edits + 1
  /\ UNCHANGED <<page, load, parse, net, store, ops, applied>>

ChunkSetSemanticChunkSize ==
  /\ chunk.chunkingOption \in {"semantic"}
  /\ ChunkEdit("semanticChunkSize", OtherSizesTried)

ChunkSetSemanticThreshold ==
  /\ chunk.chunkingOption \in {"semantic"}
  /\ ChunkEdit("semanticThreshold", ThresholdsTried)

ChunkSetHybridChunkSize ==
  /\ chunk.chunkingOption \in {"hybrid"}
  /\ ChunkEdit("hybridChunkSize", OtherSizesTried)

\* The separator selects.
ChunkSetParagraphSeparator ==
  /\ chunk.chunkingOption \in {"by_paragraphs"}
  /\ ChunkEdit("paragraphSeparator",
            ParagraphSeparatorOptions \cap PresetsTried)

ChunkSetSentenceSeparator ==
  /\ chunk.chunkingOption \in {"by_sentences"}
  /\ ChunkEdit("sentenceSeparator",
            SentenceSeparatorOptions \cap PresetsTried)

ChunkSetSemanticSentenceSeparator ==
  /\ chunk.chunkingOption \in {"semantic"}
  /\ ChunkEdit("semanticSentenceSeparator",
            SemanticSentenceSeparatorOptions \cap PresetsTried)

ChunkSetHybridParagraphSeparator ==
  /\ chunk.chunkingOption \in {"hybrid"}
  /\ ChunkEdit("hybridParagraphSeparator",
            HybridParagraphSeparatorOptions \cap PresetsTried)

ChunkSetHybridSentenceSeparator ==
  /\ chunk.chunkingOption \in {"hybrid"}
  /\ ChunkEdit("hybridSentenceSeparator",
            HybridSentenceSeparatorOptions \cap PresetsTried)

\* The custom text inputs, each rendered while its select is at 'custom'.
ChunkSetCustomParagraphSeparator ==
  /\ chunk.chunkingOption \in {"by_paragraphs"}
  /\ chunk.paragraphSeparator = Custom
  /\ ChunkEdit("customParagraphSeparator", CustomsTried)

ChunkSetCustomSentenceSeparator ==
  /\ chunk.chunkingOption \in {"by_sentences"}
  /\ chunk.sentenceSeparator = Custom
  /\ ChunkEdit("customSentenceSeparator", CustomsTried)

ChunkSetSemanticCustomSentenceSeparator ==
  /\ chunk.chunkingOption \in {"semantic"}
  /\ chunk.semanticSentenceSeparator = Custom
  /\ ChunkEdit("semanticCustomSentenceSeparator", CustomsTried)

ChunkSetHybridCustomParagraphSeparator ==
  /\ chunk.chunkingOption \in {"hybrid"}
  /\ chunk.hybridParagraphSeparator = Custom
  /\ ChunkEdit("hybridCustomParagraphSeparator", CustomsTried)

ChunkSetHybridCustomSentenceSeparator ==
  /\ chunk.chunkingOption \in {"hybrid"}
  /\ chunk.hybridSentenceSeparator = Custom
  /\ ChunkEdit("hybridCustomSentenceSeparator", CustomsTried)

\* The two tab buttons of renderRightPanel.
ChunkSetActiveTab ==
  /\ page = "chunk"
  /\ ~ChunkCrashed
  /\ \E t \in {"chunks", "documents"} : chunk' = [chunk EXCEPT !.activeTab = t]
  /\ UNCHANGED <<page, load, parse, net, store, ops, applied, edits>>

\* A handleChunk without its setChunks(null).
ChunkHandleChunkKeeping ==
  IF chunk.selectedDoc = "" \/ chunk.chunkingOption = ""
  THEN /\ chunk' = [chunk EXCEPT !.status = ChunkMsgMissing]
       /\ UNCHANGED <<net, store, ops>>
  ELSE /\ ops < MaxOps
       /\ chunk' = [chunk EXCEPT !.status = ChunkMsgProcessing]
       /\ Send(Req(ops + 1, "chunk", chunk.selectedDoc, Some(ChunkRequestBody)), net)
       /\ ops' = ops + 1

\* handleChunk up to its await.
ChunkHandleChunk ==
  IF chunk.selectedDoc = "" \/ chunk.chunkingOption = ""
  THEN /\ chunk' = [chunk EXCEPT !.status = ChunkMsgMissing]
       /\ UNCHANGED <<net, store, ops>>
  ELSE /\ ops < MaxOps
       /\ chunk' = [chunk EXCEPT !.status = ChunkMsgProcessing, !.chunks = None]
       /\ Send(Req(ops + 1, "chunk", chunk.selectedDoc, Some(ChunkRequestBody)), net)
       /\ ops' = ops + 1

\* A click on the submit button.
ChunkClickChunk ==
  /\ page = "chunk"
  /\ ~ChunkCrashed
  /\ ChunkSubmitEnabled
  /\ ChunkHandleChunk
  /\ UNCHANGED <<page, load, parse, applied, edits>>

\* handleChunk invoked while the button is disabled (not through a click).
ChunkCallChunk ==
  /\ page = "chunk"
  /\ ~ChunkCrashed
  /\ ~ChunkSubmitEnabled
  /\ ChunkHandleChunk
  /\ UNCHANGED <<page, load, parse, applied, edits>>

\* handleChunk after `await fetch(.../chunk)`; success calls fetchLoadedDocuments.
ChunkChunkDoneWith(q, r) ==
  /\ page = "chunk"
  /\ ~ChunkCrashed
  /\ q \in InFlight("chunk")
  /\ r \in Outcomes(q)
  /\ /\ applied' = Apply(r)
     /\ IF r.st = "ok"
        THEN /\ chunk' = [chunk EXCEPT !.chunks = r.body, !.status = ChunkMsgSuccess]
             /\ Send(Refresh("listLoaded"), net \ {q})
        ELSE /\ chunk' = [chunk EXCEPT !.status = <<"ERROR: ">> \o CaughtMsg(r)]
             /\ Finish(q)
  /\ UNCHANGED <<page, load, parse, ops, edits>>

ChunkChunkDone == \E q \in net : \E r \in Outcomes(q) : ChunkChunkDoneWith(q, r)

\* fetchLoadedDocuments after `await fetch(.../documents?type=loaded)`:
\* stores data.documents unchecked, then asks for the chunked list.
ChunkFetchLoadedDoneWith(q, r) ==
  /\ page = "chunk"
  /\ ~ChunkCrashed
  /\ q \in InFlight("listLoaded")
  /\ r \in Outcomes(q)
  /\ IF r.st = "neterr"
     THEN /\ chunk' = [chunk EXCEPT !.processingStatus =
                          <<"Error fetching documents: ">> \o FetchRejectMsg]
          /\ Finish(q)
     ELSE /\ chunk' = [chunk EXCEPT !.loadedDocuments = r.docs]
          /\ Send(Req(0, "listChunked", "", r.cap), net \ {q})
  /\ UNCHANGED <<page, load, parse, ops, applied, edits>>

ChunkFetchLoadedDone == \E q \in net : \E r \in Outcomes(q) : ChunkFetchLoadedDoneWith(q, r)

\* fetchLoadedDocuments after `await fetch(.../documents?type=chunked)`: one
\* detail fetch per listed document (Promise.all); an empty list is stored
\* at once.
ChunkFetchChunkedDoneWith(q, r) ==
  /\ page = "chunk"
  /\ ~ChunkCrashed
  /\ q \in InFlight("listChunked")
  /\ r \in Outcomes(q)
  /\ IF r.st # "ok"
     THEN /\ chunk' = [chunk EXCEPT !.processingStatus =
                          <<"Error fetching documents: ">> \o CaughtMsg(r)]
          /\ applied' = applied
          /\ Finish(q)
     ELSE IF r.docs = None
     THEN /\ Finish(q)
          /\ UNCHANGED <<chunk, applied>>
     ELSE IF r.docs[1] = <<>>
     THEN /\ chunk' = [chunk EXCEPT !.chunkedDocuments = r.docs]
          /\ applied' = Listed(r)
          /\ Finish(q)
     ELSE /\ net' = (net \ {q}) \cup
               {[Req(0, "details", "", r.cap) EXCEPT !.docs = r.docs]}
          /\ store' = store
          /\ UNCHANGED <<chunk, applied>>
  /\ UNCHANGED <<page, load, parse, ops, edits>>

ChunkFetchChunkedDone == \E q \in net : \E r \in Outcomes(q) : ChunkFetchChunkedDoneWith(q, r)

\* fetchLoadedDocuments after `await Promise.all(...)`: a failed detail keeps
\* the listed document as it was, so the names are those of the list.
ChunkFetchDetailsDoneWith(q, r) ==
  /\ page = "chunk"
  /\ ~ChunkCrashed
  /\ q \in InFlight("details")
  /\ r \in Outcomes(q)
  /\ /\ chunk' = [chunk EXCEPT !.chunkedDocuments = r.docs]
     /\ applied' = Listed(r)
     /\ Finish(q)
  /\ UNCHANGED <<page, load, parse, ops, edits>>

ChunkFetchDetailsDone == \E q \in net : \E r \in Outcomes(q) : ChunkFetchDetailsDoneWith(q, r)

\* The chunked documents whose View / Delete buttons are rendered.
ChunkListed ==
  IF chunk.activeTab = "documents" /\ chunk.chunkedDocuments # None /\ ~ChunkCrashed
  THEN Elems(chunk.chunkedDocuments[1]) ELSE {}

\* handleDeleteDocument up to its await; the closure holds selectedDoc.
ChunkDeleteDocument ==
  /\ page = "chunk"
  /\ ops < MaxOps
  /\ \E d \in ChunkListed :
       Send(Req(ops + 1, "delete", d, Some(chunk.selectedDoc)), net)
  /\ ops' = ops + 1
  /\ UNCHANGED <<page, load, chunk, parse, applied, edits>>

\* handleDeleteDocument after `await fetch(..., DELETE)`.
ChunkDeleteDoneWith(q, r) ==
  /\ page = "chunk"
  /\ ~ChunkCrashed
  /\ q \in InFlight("delete")
  /\ r \in Outcomes(q)
  /\ IF r.st = "ok"
     THEN /\ chunk' = IF r.cap = Some(r.name)
                      THEN [chunk EXCEPT !.processingStatus = ChunkMsgDeleted,
                                         !.selectedDoc = "",
                                         !.chunks = None]
                      ELSE [chunk EXCEPT !.processingStatus = ChunkMsgDeleted]
          /\ Send(Refresh("listLoaded"), net \ {q})
     ELSE /\ chunk' = [chunk EXCEPT !.processingStatus =
                          <<"Delete failed: ">> \o CaughtMsg(r)]    \* `删除文档时出错: ...`
          /\ Finish(q)
  /\ UNCHANGED <<page, load, parse, ops, applied, edits>>

ChunkDeleteDone == \E q \in net : \E r \in Outcomes(q) : ChunkDeleteDoneWith(q, r)

\* handleViewDocument up to its await.
ChunkViewDocument ==
  /\ page = "chunk"
  /\ ops < MaxOps
  /\ \E d \in ChunkListed :
       Send(Req(ops + 1, "detail", d, None), net)
  /\ ops' = ops + 1
  /\ UNCHANGED <<page, load, chunk, parse, applied, edits>>

\* A handleViewDocument that also selects the viewed name as the input
\* document (as LoadFile.jsx's does with its selectedDoc).
ChunkViewDoneSelecting(q, r) ==
  /\ page = "chunk"
  /\ ~ChunkCrashed
  /\ q \in InFlight("detail")
  /\ r \in Outcomes(q)
  /\ /\ applied' = Apply(r)
     /\ chunk' = IF r.st = "ok"
                 THEN [chunk EXCEPT !.chunks = r.body, !.activeTab = "chunks",
                                    !.selectedDoc = r.name]
                 ELSE [chunk EXCEPT !.processingStatus =
                          <<"View failed: ">> \o CaughtMsg(r)]
     /\ Finish(q)
  /\ UNCHANGED <<page, load, parse, ops, edits>>

\* handleViewDocument after `await fetch(.../documents/<name>?type=chunked)`.
ChunkViewDoneWith(q, r) ==
  /\ page = "chunk"
  /\ ~ChunkCrashed
  /\ q \in InFlight("detail")
  /\ r \in Outcomes(q)
  /\ /\ applied' = Apply(r)
     /\ chunk' = IF r.st = "ok"
                 THEN [chunk EXCEPT !.chunks = r.body, !.activeTab = "chunks"]
                 ELSE [chunk EXCEPT !.processingStatus =
                          <<"View failed: ">> \o CaughtMsg(r)]      \* `查看文档时出错: ...`
     /\ Finish(q)
  /\ UNCHANGED <<page, load, parse, ops, edits>>

ChunkViewDone == \E q \in net : \E r \in Outcomes(q) : ChunkViewDoneWith(q, r)

----------------------------------------------------------------------------
\* ParseFile.jsx

\* Files the operator can pick in the Parse page's file input.
ParseFiles == {[name |-> "b", ext |-> "pdf"], [name |-> "b", ext |-> "md"]}

\* fileTypeConfig: the select options per file type, in their order.
ParseLoadingMethods(ft) ==
  IF ft = "md" THEN <<"markdown">>
  ELSE <<"pymupdf", "pypdf", "unstructured", "pdfplumber">>

ParseParsingOptions(ft) ==
  IF ft = "md" THEN <<"all_text", "by_sections", "text_and_tables">>
  ELSE <<"all_text", "by_pages", "by_titles", "text_and_tables">>

\* The state after the first render: the useState initial values.
ParseInit ==
  [file |-> None, loadingMethod |-> "pymupdf", parsingOption |-> "all_text",
   parsedContent |-> None, status |-> <<>>, docName |-> "", isProcessed |-> FALSE,
   fileType |-> "pdf", tab |-> "preview", parsedDocs |-> Some(<<>>),
   parsedLoading |-> FALSE, parsedError |-> <<>>]

\* The status texts of the Parse page.
ParseMsgMissing == <<"MISSING: select all required options">>   \* '请选择所有必需的选项'
ParseMsgProcessing == <<"PROCESSING...">>                       \* '处理中...'
ParseMsgSuccess == <<"Processing done!">>                       \* '处理完成！'
ParseMsgListFailed == <<"Fetching parsed documents failed">>    \* '获取解析文档失败'

\* What the preview tab renders: the placeholder image without a result, else
\* the document information and the rows of parsedContent.content, or, when
\* that is not an array, the empty-state line.
ParsePreview ==
  IF parse.tab # "preview" THEN "hidden"
  ELSE IF parse.parsedContent = None THEN "placeholder"
  ELSE IF LacksSegments(parse.parsedContent) THEN "empty-state"
  ELSE "segments"

\* The submit button's `disabled={!file}`.
ParseSubmitEnabled == parse.file # None

\* handleFileSelect without its reset of the parsing option.
ParseFileSelectKeepingOption ==
  /\ page = "parse"
  /\ \E f \in ParseFiles :
       LET newFileType == IF f.ext = "md" THEN "md" ELSE "pdf" IN
       parse' = [parse EXCEPT
                   !.file = Some(f),
                   !.docName = f.name,
                   !.fileType = newFileType,
                   !.loadingMethod = ParseLoadingMethods(newFileType)[1]]
  /\ UNCHANGED <<page, load, chunk, net, store, ops, applied, edits>>

\* onChange of the file input: handleFileSelect.
ParseFileSelect ==
  /\ page = "parse"
  /\ \E f \in ParseFiles :
       LET newFileType == IF f.ext = "md" THEN "md" ELSE "pdf" IN
       parse' = [parse EXCEPT
                   !.file = Some(f),
                   !.docName = f.name,
                   !.fileType = newFileType,
                   !.loadingMethod = ParseLoadingMethods(newFileType)[1],
                   !.parsingOption = ParseParsingOptions(newFileType)[1]]
  /\ UNCHANGED <<page, load, chunk, net, store, ops, applied, edits>>

\* onChange of the loading-method select.
ParseSetLoadingMethod ==
  /\ page = "parse"
  /\ \E m \in Elems(ParseLoadingMethods(parse.fileType)) \cap MethodsTried :
       parse' = [parse EXCEPT !.loadingMethod = m]
  /\ UNCHANGED <<page, load, chunk, net, store, ops, applied, edits>>

\* onChange of the parsing-option select.
ParseSetParsingOption ==
  /\ page = "parse"
  /\ \E o \in Elems(ParseParsingOptions(parse.fileType)) \cap MethodsTried :
       parse' = [parse EXCEPT !.parsingOption = o]
  /\ UNCHANGED <<page, load, chunk, net, store, ops, applied, edits>>

\* The two selects with every option they offer: the options of the current
\* file type.
ParseFormSetLoadingMethod ==
  /\ page = "parse"
  /\ \E m \in Elems(ParseLoadingMethods(parse.fileType)) :
       parse' = [parse EXCEPT !.loadingMethod = m]
  /\ UNCHANGED <<page, load, chunk, net, store, ops, applied, edits>>

ParseFormSetParsingOption ==
  /\ page = "parse"
  /\ \E o \in Elems(ParseParsingOptions(parse.fileType)) :
       parse' = [parse EXCEPT !.parsingOption = o]
  /\ UNCHANGED <<page, load, chunk, net, store, ops, applied, edits>>

\* A tab button; the effect on [tab] runs fetchParsedDocs up to its await
\* when the tab becomes 'manage'.
ParseSetTab ==
  /\ page = "parse"
  /\ \E t \in {"preview", "manage"} :
       IF t = "manage" /\ parse.tab # "manage"
       THEN /\ ops < MaxOps
            /\ parse' = [parse EXCEPT !.tab = t, !.parsedLoading = TRUE,
                                      !.parsedError = <<>>]
            /\ Send(Req(0, "list", "", None), net)
            /\ ops' = ops + 1
       ELSE /\ parse' = [parse EXCEPT !.tab = t]
            /\ UNCHANGED <<net, store, ops>>
  /\ UNCHANGED <<page, load, chunk, applied, edits>>

\* fetchParsedDocs after `await fetch(.../parsed-docs)`.
ParseFetchParsedDocsDoneWith(q, r) ==
  /\ page = "parse"
  /\ q \in InFlight("list")
  /\ r \in Outcomes(q)
  /\ /\ parse' = IF r.st = "neterr"
                 THEN [parse EXCEPT !.parsedError = ParseMsgListFailed,
                                    !.parsedLoading = FALSE]
                 ELSE [parse EXCEPT !.parsedDocs =
                                       IF r.docs # None THEN r.docs ELSE Some(<<>>),
                                    !.parsedLoading = FALSE]
     /\ Finish(q)
  /\ UNCHANGED <<page, load, chunk, ops, applied, edits>>

ParseFetchParsedDocsDone == \E q \in net : \E r \in Outcomes(q) : ParseFetchParsedDocsDoneWith(q, r)

\* The body of the parse request: the entries handleProcess appends to its
\* FormData.
ParseFormData ==
  [file |-> parse.file[1],
   loading_method |-> parse.loadingMethod,
   parsing_option |-> parse.parsingOption,
   file_type |-> parse.fileType]

\* handleProcess up to its await.
ParseHandleProcess ==
  IF parse.file = None \/ parse.loadingMethod = "" \/ parse.parsingOption = ""
  THEN /\ parse' = [parse EXCEPT !.status = ParseMsgMissing]
       /\ UNCHANGED <<net, store, ops>>
  ELSE /\ ops < MaxOps
       /\ parse' = [parse EXCEPT !.status = ParseMsgProcessing,
                                 !.parsedContent = None,
                                 !.isProcessed = FALSE]
       /\ Send(Req(ops + 1, "parse", parse.file[1].name, Some(ParseFormData)), net)
       /\ ops' = ops + 1

\* A click on the submit button.
ParseClickProcess ==
  /\ page = "parse"
  /\ ParseSubmitEnabled
  /\ ParseHandleProcess
  /\ UNCHANGED <<page, load, chunk, applied, edits>>

\* handleProcess invoked while the button is disabled (not through a click).
ParseCallProcess ==
  /\ page = "parse"
  /\ ~ParseSubmitEnabled
  /\ ParseHandleProcess
  /\ UNCHANGED <<page, load, chunk, applied, edits>>

\* handleProcess after `await fetch(.../parse)`.
ParseProcessDoneWith(q, r) ==
  /\ page = "parse"
  /\ q \in InFlight("parse")
  /\ r \in Outcomes(q)
  /\ /\ applied' = Apply(r)
     /\ parse' = IF r.st = "ok"
                 THEN [parse EXCEPT !.parsedContent = r.body,
                                    !.status = ParseMsgSuccess,
                                    !.isProcessed = TRUE]
                 ELSE [parse EXCEPT !.status = <<"ERROR: ">> \o CaughtMsg(r)]
     /\ Finish(q)
  /\ UNCHANGED <<page, load, chunk, ops, edits>>

ParseProcessDone == \E q \in net : \E r \in Outcomes(q) : ParseProcessDoneWith(q, r)

\* The parsed documents whose View / Delete buttons are rendered.
ParseListed ==
  IF parse.tab = "manage" THEN Elems(parse.parsedDocs[1]) ELSE {}

\* handleViewParsed up to its await.
ParseViewParsed ==
  /\ page = "parse"
  /\ ops < MaxOps
  /\ \E d \in ParseListed :
       Send(Req(ops + 1, "detail", d, None), net)
  /\ ops' = ops + 1
  /\ UNCHANGED <<page, load, chunk, parse, applied, edits>>

\* handleViewParsed after `await fetch(.../parsed-docs/<name>)`: the JSON body
\* is stored whatever the response status is.
ParseViewDoneWith(q, r) ==
  /\ page = "parse"
  /\ q \in InFlight("detail")
  /\ r \in Outcomes(q)
  /\ /\ applied' = Apply(r)
     /\ parse' = IF r.st = "neterr"
                 THEN [parse EXCEPT !.parsedContent = None]
                 ELSE [parse EXCEPT !.parsedContent = r.body, !.tab = "preview"]
     /\ Finish(q)
  /\ UNCHANGED <<page, load, chunk, ops, edits>>

ParseViewDone == \E q \in net : \E r \in Outcomes(q) : ParseViewDoneWith(q, r)

\* handleDeleteParsed, confirmed, up to its await; the closure holds parsedDocs.
ParseDeleteParsed ==
  /\ page = "parse"
  /\ ops < MaxOps
  /\ \E d \in ParseListed :
       Send(Req(ops + 1, "delete", d, parse.parsedDocs), net)
  /\ ops' = ops + 1
  /\ UNCHANGED <<page, load, chunk, parse, applied, edits>>

\* handleDeleteParsed after `await fetch(..., DELETE)`: filters the captured
\* list whatever the response status is; a rejected fetch only alerts.
ParseDeleteDoneWith(q, r) ==
  /\ page = "parse"
  /\ q \in InFlight("delete")
  /\ r \in Outcomes(q)
  /\ /\ parse' = IF r.st = "neterr" THEN parse
                 ELSE [parse EXCEPT !.parsedDocs =
                          Some(SelectSeq(r.cap[1], LAMBDA x : x # r.name))]
     /\ Finish(q)
  /\ UNCHANGED <<page, load, chunk, ops, applied, edits>>

ParseDeleteDone == \E q \in net : \E r \in Outcomes(q) : ParseDeleteDoneWith(q, r)

----------------------------------------------------------------------------
\* The specification

Pages == {"load", "chunk", "parse"}

\* The artifacts the store holds when the page is mounted, and the loaded
\* documents the Chunk page is offered.
Stored == {"a"}
LoadedForChunk == {"b"}

EmptyStore == [loaded |-> {}, chunked |-> {}, parsed |-> {}]

\* The state once the page is mounted and its mount effect has run: Load and
\* Chunk have their first registry refresh in flight.
Init ==
  /\ page \in Pages
  /\ load = LoadInit
  /\ chunk = ChunkInit
  /\ parse = ParseInit
  /\ store = CASE page = "load" -> [EmptyStore EXCEPT !.loaded = Stored]
               [] page = "chunk" -> [EmptyStore EXCEPT !.loaded = LoadedForChunk, !.chunked = Stored]
               [] OTHER -> [EmptyStore EXCEPT !.parsed = Stored]
  /\ net \in CASE page = "load" -> {{r} : r \in Answers(Req(0, "list", "", Some(0)))}
               [] page = "chunk" -> {{r} : r \in Answers(Req(0, "listLoaded", "", Some(0)))}
               [] OTHER -> {{}}
  /\ ops = 0
  /\ applied = [last |-> 0, max |-> 0, listed |-> 0]
  /\ edits = 0

Next ==
  \/ LoadFileChange \/ LoadSetLoadingMethod \/ LoadSetActiveTab
  \/ LoadClickProcess \/ LoadCallProcess \/ LoadProcessDone
  \/ LoadFetchDocumentsDone
  \/ LoadDeleteDocument \/ LoadDeleteDone \/ LoadViewDocument \/ LoadViewDone
  \/ ChunkSelectDoc \/ ChunkSetActiveTab
  \/ ChunkClickChunk \/ ChunkCallChunk \/ ChunkChunkDone
  \/ ChunkFetchLoadedDone \/ ChunkFetchChunkedDone \/ ChunkFetchDetailsDone
  \/ ChunkDeleteDocument \/ ChunkDeleteDone \/ ChunkViewDocument \/ ChunkViewDone
  \/ ParseFileSelect \/ ParseSetLoadingMethod \/ ParseSetParsingOption
  \/ ParseSetTab \/ ParseFetchParsedDocsDone
  \/ ParseClickProcess \/ ParseCallProcess \/ ParseProcessDone
  \/ ParseViewParsed \/ ParseViewDone \/ ParseDeleteParsed \/ ParseDeleteDone

\* The pages, with the form of the Chunk page (its method and advanced
\* options, which FormSpec follows) left as it is first rendered.
Spec == Init /\ [][Next]_vars

\* The form of the Chunk page: the page once its mount refresh has completed,
\* the loaded document is selected and the advanced options are shown, with
\* the operator working on the
\* method, the advanced options and the submit button; one submit is
\* followed.
FormInit ==
  /\ page = "chunk"
  /\ load = LoadInit
  /\ chunk = [ChunkInit EXCEPT !.loadedDocuments = Some(ListOf(LoadedForChunk)),
                               !.chunkedDocuments = Some(ListOf(Stored)),
                               !.selectedDoc = "b",
                               !.showAdvancedOptions = TRUE]
  /\ parse = ParseInit
  /\ store = [EmptyStore EXCEPT !.loaded = LoadedForChunk, !.chunked = Stored]
  /\ net = {}
  /\ ops = MaxOps - 1
  /\ applied = [last |-> 0, max |-> 0, listed |-> 0]
  /\ edits = 0

FormNext ==
  \/ ChunkToggleAdvanced \/ ChunkSetChunkingOption
  \/ ChunkSetChunkSize \/ ChunkSetChunkOverlap
  \/ ChunkSetSemanticChunkSize \/ ChunkSetSemanticThreshold
  \/ ChunkSetHybridChunkSize
  \/ ChunkSetParagraphSeparator \/ ChunkSetCustomParagraphSeparator
  \/ ChunkSetSentenceSeparator \/ ChunkSetCustomSentenceSeparator
  \/ ChunkSetSemanticSentenceSeparator \/ ChunkSetSemanticCustomSentenceSeparator
  \/ ChunkSetHybridParagraphSeparator \/ ChunkSetHybridCustomParagraphSeparator
  \/ ChunkSetHybridSentenceSeparator \/ ChunkSetHybridCustomSentenceSeparator
  \/ ChunkClickChunk

FormSpec == FormInit /\ [][FormNext]_vars

\* The loading options of the Load page: the page once its mount refresh has
\* completed, with the operator working on the file input, the loading
\* options and the submit button; one submit is followed.
LoadFormInit ==
  /\ page = "load"
  /\ load = [LoadInit EXCEPT !.documents = Some(ListOf(Stored))]
  /\ chunk = ChunkInit
  /\ parse = ParseInit
  /\ store = [EmptyStore EXCEPT !.loaded = Stored]
  /\ net = {}
  /\ ops = MaxOps - 1
  /\ applied = [last |-> 0, max |-> 0, listed |-> 0]
  /\ edits = 0

LoadFormNext ==
  \/ LoadFormFileChange \/ LoadFormSetLoadingMethod
  \/ LoadSetLanguages \/ LoadSetHasHeader
  \/ LoadClickProcess

LoadFormSpec == LoadFormInit /\ [][LoadFormNext]_vars

\* The upload form of the Parse page: the operator working on the file input,
\* the two selects and the submit button; one submit is followed.
ParseFormInit ==
  /\ page = "parse"
  /\ load = LoadInit
  /\ chunk = ChunkInit
  /\ parse = ParseInit
  /\ store = [EmptyStore EXCEPT !.parsed = Stored]
  /\ net = {}
  /\ ops = MaxOps - 1
  /\ applied = [last |-> 0, max |-> 0, listed |-> 0]
  /\ edits = 0

ParseFormNext ==
  \/ ParseFileSelect \/ ParseFormSetLoadingMethod \/ ParseFormSetParsingOption
  \/ ParseClickProcess

ParseFormSpec == ParseFormInit /\ [][ParseFormNext]_vars

----------------------------------------------------------------------------
\* What the claims speak of

\* The input selection and configuration of each page (not its result).
LoadConfig == <<load.file, load.fileType, load.loadingMethod>>
ChunkConfig == <<chunk.selectedDoc, chunk.chunkingOption>>
ParseConfig == <<parse.file, parse.docName, parse.fileType,
                 parse.loadingMethod, parse.parsingOption>>

\* A text contains the piece.
Contains(text, piece) == \E i \in 1..Len(text) : text[i] = piece

\* The displayed result is the artifact named n.
Displays(result, n) == result # None /\ result[1].name = n

----------------------------------------------------------------------------
\* C1: in each of the three pages, the submit handler invoked while no
\* document/file is selected issues no request (net and the store are as
\* before) and changes nothing of the page but its status, which becomes the
\* missing-selection message.
C1_SubmitWithoutSelection ==
  [][ /\ LoadCallProcess =>
           /\ load' = [load EXCEPT !.status = LoadMsgMissing]
           /\ net' = net /\ store' = store
      /\ ChunkCallChunk =>
           /\ chunk' = [chunk EXCEPT !.status = ChunkMsgMissing]
           /\ net' = net /\ store' = store
      /\ ParseCallProcess =>
           /\ parse' = [parse EXCEPT !.status = ParseMsgMissing]
           /\ net' = net /\ store' = store ]_vars

\* The Load page after such a submit: no file, the message, and the content
\* shown by an earlier view still displayed.
C1_Witness ==
  /\ page = "load"
  /\ load.file = None
  /\ load.status = LoadMsgMissing
  /\ load.loadedContent # None

----------------------------------------------------------------------------
\* C2: in every page, when a delete answered with success is handled while
\* the displayed result is the deleted artifact (put there by submit or by
\* view), the displayed result is cleared.
C2_DeleteOfDisplayedClearsResult ==
  [][ \A q \in net :
        /\ (LoadDeleteDoneWith(q, q) /\ q.st = "ok"
              /\ Displays(load.loadedContent, q.name))
             => load'.loadedContent = None
        /\ (ChunkDeleteDoneWith(q, q) /\ q.st = "ok"
              /\ Displays(chunk.chunks, q.name))
             => chunk'.chunks = None
        /\ (ParseDeleteDoneWith(q, q) /\ q.st = "ok"
              /\ Displays(parse.parsedContent, q.name))
             => parse'.parsedContent = None ]_vars

----------------------------------------------------------------------------
\* C3: in every page at most one processing request (the POST of a submit) is
\* in flight at any time.
C3_OneSubmitInFlight ==
  \A k \in PostKinds : Cardinality(InFlight(k)) <= 1

----------------------------------------------------------------------------
\* C4: the completion handler of a result-producing request (submit or view)
\* never writes the page after the handler of a later-issued one has: the
\* last handler that ran is that of the latest-issued request handled so far.
C4_StaleResponseIgnored ==
  applied.last = applied.max

----------------------------------------------------------------------------
\* C5: in every page, handling the successful answer of a submit stores the
\* answered result as the displayed result and leaves a list request of the
\* page's registry in flight.
C5_SubmitSuccessRefreshesRegistry ==
  [][ \A q \in net :
        /\ (LoadProcessDoneWith(q, q) /\ q.st = "ok")
             => /\ load'.loadedContent = q.body
                /\ \E r \in net' : r.kind \in ListKinds
        /\ (ChunkChunkDoneWith(q, q) /\ q.st = "ok")
             => /\ chunk'.chunks = q.body
                /\ \E r \in net' : r.kind \in ListKinds
        /\ (ParseProcessDoneWith(q, q) /\ q.st = "ok")
             => /\ parse'.parsedContent = q.body
                /\ \E r \in net' : r.kind \in ListKinds ]_vars

----------------------------------------------------------------------------
\* C6: in every page, handling the successful answer of a delete leaves the
\* registry list the page holds as it is (no local patch) and leaves a list
\* request in flight, whose answer alone replaces the list.
C6_DeleteRefreshesByList ==
  [][ \A q \in net :
        /\ (LoadDeleteDoneWith(q, q) /\ q.st = "ok")
             => /\ load'.documents = load.documents
                /\ \E r \in net' : r.kind \in ListKinds
        /\ (ChunkDeleteDoneWith(q, q) /\ q.st = "ok")
             => /\ chunk'.chunkedDocuments = chunk.chunkedDocuments
                /\ \E r \in net' : r.kind \in ListKinds
        /\ (ParseDeleteDoneWith(q, q) /\ q.st = "ok")
             => /\ parse'.parsedDocs = parse.parsedDocs
                /\ \E r \in net' : r.kind \in ListKinds ]_vars

----------------------------------------------------------------------------
\* C7: on the Chunk page, once a submit has succeeded, no request is in
\* flight any more and no refresh has reported an error, the chunked list the
\* page holds includes every artifact a submit can have produced that is
\* still in the store.
C7_ChunkedListIncludesNewArtifact ==
  (/\ page = "chunk"
   /\ ~ChunkCrashed
   /\ chunk.status = ChunkMsgSuccess
   /\ chunk.processingStatus = <<>>
   /\ net = {})
    => /\ chunk.chunkedDocuments # None
       /\ \A n \in LoadedForChunk \cap store.chunked :
            n \in Elems(chunk.chunkedDocuments[1])

----------------------------------------------------------------------------
\* C8: in every page, handling the failure of a submit (a rejected fetch or a
\* non-2xx answer) leaves no result displayed, stores a status that contains
\* the detail of the answer when it carries one, and issues no processing
\* request.
C8_SubmitFailureKeepsDetail ==
  [][ \A q \in net : \A r \in Outcomes(q) :
        /\ (LoadProcessDoneWith(q, r) /\ r.st # "ok")
             => /\ load'.loadedContent = None
                /\ (r.st = "http" /\ r.detail # "") => Contains(load'.status, r.detail)
                /\ \A k \in PostKinds : InFlight(k)' \subseteq InFlight(k)
        /\ (ChunkChunkDoneWith(q, r) /\ r.st # "ok")
             => /\ chunk'.chunks = None
                /\ (r.st = "http" /\ r.detail # "") => Contains(chunk'.status, r.detail)
                /\ \A k \in PostKinds : InFlight(k)' \subseteq InFlight(k)
        /\ (ParseProcessDoneWith(q, r) /\ r.st # "ok")
             => /\ parse'.parsedContent = None
                /\ (r.st = "http" /\ r.detail # "") => Contains(parse'.status, r.detail)
                /\ \A k \in PostKinds : InFlight(k)' \subseteq InFlight(k) ]_vars

----------------------------------------------------------------------------
\* C9 (as stated): in every page, selecting an input document/file clears
\* the displayed result.
C9_SelectClearsResult ==
  [][ /\ LoadFileChange => load'.loadedContent = None
      /\ ChunkSelectDoc => chunk'.chunks = None
      /\ ParseFileSelect => parse'.parsedContent = None ]_vars

\* C9: in every page, selecting an input document/file leaves the displayed
\* result as it is; the previous result is cleared when the next submit is
\* accepted (a click with the selection present), before its answer arrives.
C9_SubmitClearsResult ==
  [][ /\ LoadFileChange => load'.loadedContent = load.loadedContent
      /\ ChunkSelectDoc => chunk'.chunks = chunk.chunks
      /\ ParseFileSelect => parse'.parsedContent = parse.parsedContent
      /\ LoadClickProcess => load'.loadedContent = None
      /\ ChunkClickChunk => chunk'.chunks = None
      /\ ParseClickProcess => parse'.parsedContent = None ]_vars

\* The Load page with a file chosen in the file input while the content of
\* the stored document "a" (shown by a view) is still displayed.
C9_Witness ==
  /\ page = "load"
  /\ load.file # None
  /\ Displays(load.loadedContent, "a")

----------------------------------------------------------------------------
\* C10: in every page, a view issues exactly one detail request and no
\* other, leaving the result and the input configuration as they are and the
\* status other than the submit's processing message; handling its successful
\* answer displays the fetched artifact in the preview tab, issues no request
\* and leaves the input configuration as it is.
C10_ViewBypassesSubmitting ==
  [][ /\ LoadViewDocument =>
           /\ \E r \in net' : r \notin net /\ net' = net \cup {r} /\ r.kind = "detail"
           /\ LoadConfig' = LoadConfig
           /\ load'.loadedContent = load.loadedContent
           /\ load'.status # LoadMsgLoading
      /\ ChunkViewDocument =>
           /\ \E r \in net' : r \notin net /\ net' = net \cup {r} /\ r.kind = "detail"
           /\ chunk' = chunk
      /\ ParseViewParsed =>
           /\ \E r \in net' : r \notin net /\ net' = net \cup {r} /\ r.kind = "detail"
           /\ parse' = parse
      /\ \A q \in net :
           /\ (LoadViewDoneWith(q, q) /\ q.st = "ok") =>
                /\ load'.loadedContent = q.body /\ q.body # None
                /\ load'.activeTab = "preview"
                /\ LoadConfig' = LoadConfig
                /\ load'.status # LoadMsgLoading
                /\ net' = net \ {q}
           /\ (ChunkViewDoneWith(q, q) /\ q.st = "ok") =>
                /\ chunk'.chunks = q.body /\ q.body # None
                /\ chunk'.activeTab = "chunks"
                /\ ChunkConfig' = ChunkConfig
                /\ chunk'.status = chunk.status
                /\ net' = net \ {q}
           /\ (ParseViewDoneWith(q, q) /\ q.st = "ok") =>
                /\ parse'.parsedContent = q.body /\ q.body # None
                /\ parse'.tab = "preview"
                /\ ParseConfig' = ParseConfig
                /\ parse'.status = parse.status
                /\ net' = net \ {q} ]_vars

\* The Chunk page displaying the artifact "a" fetched by a view while the
\* input document "b" stays selected and no submit was made.
C10_Witness ==
  /\ page = "chunk"
  /\ Displays(chunk.chunks, "a")
  /\ chunk.activeTab = "chunks"
  /\ chunk.selectedDoc = "b"
  /\ chunk.status = <<>>
  /\ net = {}

----------------------------------------------------------------------------
\* C11: in every page, handling a non-2xx answer to a view leaves the
\* displayed result as it was (the body of the error response is not stored
\* as the result) and reports the failure in a status text of the page.
C11_ViewNotFoundKeepsResult ==
  [][ \A q \in net :
        /\ (LoadViewDoneWith(q, q) /\ q.st = "http")
             => /\ load'.loadedContent = load.loadedContent
                /\ Contains(load'.status, q.code)
        /\ (ChunkViewDoneWith(q, q) /\ q.st = "http")
             => /\ chunk'.chunks = chunk.chunks
                /\ Contains(chunk'.processingStatus, q.code)
        /\ (ParseViewDoneWith(q, q) /\ q.st = "http")
             => /\ parse'.parsedContent = parse.parsedContent
                /\ \/ Contains(parse'.status, q.code)
                   \/ Contains(parse'.parsedError, q.code) ]_vars

----------------------------------------------------------------------------
\* C12: in every page, handling the failure of a delete (a rejected fetch or
\* a non-2xx answer) leaves the registry list the page holds exactly as it
\* was.
C12_DeleteFailureKeepsList ==
  [][ \A q \in net : \A r \in Outcomes(q) :
        /\ (LoadDeleteDoneWith(q, r) /\ r.st # "ok")
             => load'.documents = load.documents
        /\ (ChunkDeleteDoneWith(q, r) /\ r.st # "ok")
             => chunk'.chunkedDocuments = chunk.chunkedDocuments
        /\ (ParseDeleteDoneWith(q, r) /\ r.st # "ok")
             => parse'.parsedDocs = parse.parsedDocs ]_vars

----------------------------------------------------------------------------
\* C13: in every page, a delete of a name the store no longer holds, which
\* the service answers with 404, is handled as a success: the page stores its
\* deletion message and no error text.
C13_DeleteOfAbsentIsSuccess ==
  [][ \A q \in net :
        /\ (LoadDeleteDoneWith(q, q) /\ q.code = "404")
             => load'.status = LoadMsgDeleted
        /\ (ChunkDeleteDoneWith(q, q) /\ q.code = "404")
             => chunk'.processingStatus = ChunkMsgDeleted
        /\ (ParseDeleteDoneWith(q, q) /\ q.code = "404")
             => parse'.parsedError = <<>> ]_vars

\* The chunk requests a step issues, and the body each carries.
ChunkRequestsIssued == {q \in net' \ net : q.kind = "chunk" /\ q.cap # None}

\* The pieces of a list put back together with a bar between two of them.
RECURSIVE Join(_)
Join(pieces) ==
  IF Len(pieces) = 0 THEN <<>>
  ELSE IF Len(pieces) = 1 THEN pieces[1]
  ELSE pieces[1] \o <<"|">> \o Join(Tail(pieces))

\* The list is the text split at its bars: no piece holds a bar, and the
\* pieces joined by bars are the text.
IsSplitOf(pieces, text) ==
  /\ Len(pieces) >= 1
  /\ \A i \in 1..Len(pieces) : \A j \in 1..Len(pieces[i]) : pieces[i][j] # "|"
  /\ Join(pieces) = text

\* The value a paragraph-type field must carry for a preset and a custom text.
ParagraphResolved(sent, preset, custom) ==
  /\ (preset = Custom /\ custom # <<>>) => sent = custom
  /\ preset # Custom => sent = preset

\* The value a sentence-type field must carry for a preset and a custom text.
SentencesResolved(sent, preset, custom) ==
  /\ (preset = Custom /\ custom # <<>>) => IsSplitOf(sent, custom)
  /\ preset # Custom => IsSplitOf(sent, preset)

\* C14: whatever the chunking method, each separator field of a submitted
\* chunk request carries the custom text when its preset is 'custom' and the
\* custom text is not empty, and the preset otherwise (the custom text is then
\* ignored); a sentence-type field carries that text split at its bars, a
\* paragraph-type field carries it intact.
C14_SeparatorsResolved ==
  [][\A q \in ChunkRequestsIssued :
       LET b == q.cap[1] IN
       /\ b.chunking_option = chunk.chunkingOption
       /\ ParagraphResolved(b.paragraph_separator,
                            chunk.paragraphSeparator, chunk.customParagraphSeparator)
       /\ SentencesResolved(b.sentence_separators,
                            chunk.sentenceSeparator, chunk.customSentenceSeparator)
       /\ SentencesResolved(b.semantic_sentence_separators,
                            chunk.semanticSentenceSeparator,
                            chunk.semanticCustomSentenceSeparator)
       /\ ParagraphResolved(b.hybrid_paragraph_separator,
                            chunk.hybridParagraphSeparator,
                            chunk.hybridCustomParagraphSeparator)
       /\ SentencesResolved(b.hybrid_sentence_separators,
                            chunk.hybridSentenceSeparator,
                            chunk.hybridCustomSentenceSeparator)]_vars

\* A by_sentences request was submitted whose sentence separators are the two
\* pieces of the custom text "x|y".
C14_Witness ==
  \E q \in net :
    /\ q.kind = "chunk"
    /\ q.cap # None
    /\ q.cap[1].chunking_option = "by_sentences"
    /\ q.cap[1].sentence_separators = << <<"x">>, <<"y">> >>
    /\ chunk.sentenceSeparator = Custom
    /\ chunk.customSentenceSeparator = <<"x", "|", "y">>

\* A step that switches the chunking method.
MethodSwitched == chunk'.chunkingOption # chunk.chunkingOption

\* C15: a switch of the chunking method (from fixed_size to by_sentences, back,
\* or any other) leaves the chunk size and the chunk overlap as they were set,
\* and a by_sentences submission sends exactly the chunk size and the chunk
\* overlap the form holds.
C15_SizeAndOverlapSurviveSwitch ==
  [][/\ MethodSwitched =>
          /\ chunk'.chunkSize = chunk.chunkSize
          /\ chunk'.chunkOverlap = chunk.chunkOverlap
     /\ \A q \in ChunkRequestsIssued :
          q.cap[1].chunking_option = "by_sentences" =>
            /\ q.cap[1].chunk_size = chunk.chunkSize
            /\ q.cap[1].chunk_overlap = chunk.chunkOverlap]_vars

\* A by_sentences request was submitted with a chunk size and a chunk overlap
\* that were typed (neither is the initial value), after four edits of the
\* form: a switch to a method showing the two inputs, the two inputs, and a
\* switch of method.
C15_Witness ==
  \E q \in net :
    /\ q.kind = "chunk"
    /\ q.cap # None
    /\ q.cap[1].chunking_option = "by_sentences"
    /\ q.cap[1].chunk_size = 6000
    /\ q.cap[1].chunk_overlap = 2000
    /\ edits = 4

\* The parameters whose inputs renderAdvancedOptions shows for a method.
ParametersOf(m) ==
  CASE m = "fixed_size" -> {"chunkSize", "chunkOverlap"}
    [] m = "by_sentences" ->
         {"chunkSize", "chunkOverlap", "sentenceSeparator", "customSentenceSeparator"}
    [] m = "semantic" ->
         {"semanticChunkSize", "semanticThreshold", "semanticSentenceSeparator",
          "semanticCustomSentenceSeparator"}
    [] m = "hybrid" ->
         {"hybridChunkSize", "hybridParagraphSeparator", "hybridCustomParagraphSeparator",
          "hybridSentenceSeparator", "hybridCustomSentenceSeparator"}
    [] m = "by_paragraphs" -> {"paragraphSeparator", "customParagraphSeparator"}
    [] OTHER -> {}

\* Every parameter of the advanced options.
Parameters == UNION {ParametersOf(m) : m \in ChunkingOptions}

SizedMethods == {"fixed_size", "by_sentences", "semantic", "hybrid"}

ChunkSizeField(m) ==
  CASE m \in {"fixed_size", "by_sentences"} -> "chunkSize"
    [] m = "semantic" -> "semanticChunkSize"
    [] m = "hybrid" -> "hybridChunkSize"

ChunkSizeShown(m) == chunk[ChunkSizeField(m)]

C20_SubmittedNumbersInRange ==
  \A q \in net :
    (q.kind = "chunk" /\ q.cap # None) =>
      /\ q.cap[1].chunk_size \in ChunkSizeMin..ChunkSizeMax
      /\ q.cap[1].chunk_overlap \in ChunkOverlapMin..ChunkOverlapMax
      /\ q.cap[1].semantic_threshold \in SemanticThresholdMin..SemanticThresholdMax

\* C19 (as stated): in a page, at no time are two requests in flight together.
C19_RequestsStrictlySequential == Cardinality(net) <= 1

\* C18 (as stated): in every page, the preview of a displayed result whose
\* array of segments is missing renders the empty-state marker and does not
\* throw.
C18_PreviewOfShapelessIsEmptyState ==
  /\ (page = "load" /\ load.activeTab = "preview" /\ LacksSegments(load.loadedContent))
       => LoadPreview = "empty-state"
  /\ (page = "chunk" /\ chunk.activeTab = "chunks" /\ LacksSegments(chunk.chunks))
       => ChunkPreview = "empty-state"
  /\ (page = "parse" /\ parse.tab = "preview" /\ LacksSegments(parse.parsedContent))
       => ParsePreview = "empty-state"

\* C27 (as stated): in every page the registry lists the client holds
\* (documents, loadedDocuments, chunkedDocuments, parsedDocs) are sequences in
\* every reachable state, whatever a list request has answered.
C27_RegistryListsAreSequences ==
  /\ load.documents # None
  /\ chunk.loadedDocuments # None
  /\ chunk.chunkedDocuments # None
  /\ parse.parsedDocs # None

\* C26 (as stated): in the Load and the Chunk page, the 2xx answer to a
\* registry refresh issued before the refresh the held list comes from does
\* not replace that list: an earlier, slower refresh never overwrites a newer
\* list.
C26_StaleRefreshIgnored ==
  [][\A q \in net :
       /\ (LoadFetchDocumentsDoneWith(q, q) /\ q.st = "ok" /\ q.cap[1] < applied.listed)
            => load'.documents = load.documents
       /\ ((ChunkFetchChunkedDoneWith(q, q) \/ ChunkFetchDetailsDoneWith(q, q))
             /\ q.st = "ok" /\ q.cap[1] < applied.listed)
            => chunk'.chunkedDocuments = chunk.chunkedDocuments]_vars

\* The status texts each page renders: LoadFile.jsx and ChunkFile.jsx render
\* status only (processingStatus is never rendered); ParseFile.jsx renders
\* status and, in the manage tab, parsedError.
LoadDisplayed == load.status
ChunkDisplayed == chunk.status
ParseDisplayed ==
  parse.status \o (IF parse.tab = "manage" THEN parse.parsedError ELSE <<>>)

\* The displayed texts that report no failure: nothing, a progress message or
\* a success message.
NoFailureShown ==
  {<<>>, LoadMsgLoading, LoadMsgSuccess, LoadMsgDeleted, LoadMsgViewing,
   ChunkMsgProcessing, ChunkMsgSuccess, ChunkMsgDeleted,
   ParseMsgProcessing, ParseMsgSuccess}

\* C23 (as stated): in every page, once the failure of a submit, view, delete
\* or list request (a rejected fetch or a non-2xx answer) has been handled,
\* the page displays a status text that reports a failure.
C23_FailureIsDisplayed ==
  [][\A q \in net : \A r \in Outcomes(q) :
       r.st # "ok" =>
         /\ (\/ LoadProcessDoneWith(q, r) \/ LoadViewDoneWith(q, r)
             \/ LoadDeleteDoneWith(q, r) \/ LoadFetchDocumentsDoneWith(q, r))
              => LoadDisplayed' \notin NoFailureShown
         /\ (\/ ChunkChunkDoneWith(q, r) \/ ChunkViewDoneWith(q, r)
             \/ ChunkDeleteDoneWith(q, r) \/ ChunkFetchLoadedDoneWith(q, r)
             \/ ChunkFetchChunkedDoneWith(q, r))
              => ChunkDisplayed' \notin NoFailureShown
         /\ (\/ ParseProcessDoneWith(q, r) \/ ParseViewDoneWith(q, r)
             \/ ParseDeleteDoneWith(q, r) \/ ParseFetchParsedDocsDoneWith(q, r))
              => ParseDisplayed' \notin NoFailureShown]_vars

\* The handling of an answer or of a rejected fetch by the continuation of
\* the handler that awaits it.
Deliver ==
  \/ LoadProcessDone \/ LoadFetchDocumentsDone \/ LoadDeleteDone \/ LoadViewDone
  \/ ChunkChunkDone \/ ChunkFetchLoadedDone \/ ChunkFetchChunkedDone
  \/ ChunkFetchDetailsDone \/ ChunkDeleteDone \/ ChunkViewDone
  \/ ParseFetchParsedDocsDone \/ ParseProcessDone \/ ParseViewDone \/ ParseDeleteDone

\* The pages under the assumption that every issued request is eventually
\* answered or rejected: a pending continuation is eventually resumed (the
\* event loop runs a settled promise's continuation).
LiveSpec == Init /\ [][Next]_vars /\ WF_vars(Deliver)

\* The page shows a progress message: the status of an accepted submit (or of
\* Load's view), or the loading flag of the Parse registry.
Busy ==
  CASE page = "load" -> load.status \in {LoadMsgLoading, LoadMsgViewing}
    [] page = "chunk" -> chunk.status = ChunkMsgProcessing
    [] page = "parse" -> parse.status = ParseMsgProcessing \/ parse.parsedLoading

ManageInit ==
  /\ page = "parse"
  /\ load = LoadInit
  /\ chunk = ChunkInit
  /\ parse = [ParseInit EXCEPT !.tab = "manage", !.parsedDocs = Some(ListOf(Names))]
  /\ store = [EmptyStore EXCEPT !.parsed = Names]
  /\ net = {}
  /\ ops = 0
  /\ applied = [last |-> 0, max |-> 0, listed |-> 0]
  /\ edits = 0

ManageNext ==
  \/ ParseSetTab \/ ParseFetchParsedDocsDone
  \/ ParseViewParsed \/ ParseViewDone
  \/ ParseDeleteParsed \/ ParseDeleteDone

ManageSpec == ManageInit /\ [][ManageNext]_vars

\* C25 (as stated): in the Parse page, handling the successful answer of a
\* delete puts no deleted name back in the list: the deleted name is not in
\* the list afterwards, and a name the list gains is one the store still
\* holds (not one an earlier completion removed).
C25_DeleteNeverRestoresName ==
  [][\A q \in net :
       (ParseDeleteDoneWith(q, q) /\ q.st = "ok") =>
         /\ q.name \notin Elems(parse'.parsedDocs[1])
         /\ \A n \in Elems(parse'.parsedDocs[1]) \ Elems(parse.parsedDocs[1]) :
              n \in store.parsed]_vars

\* The options of the loading-method control renderLoadingOptions shows for a
\* file type.
LoadCandidates(ext) ==
  CASE ext = "txt" -> {"text"}
    [] ext = "pdf" -> PdfLoadingMethods
    [] ext = "csv" -> {"csv"}
    [] ext = "md" -> {"md"}
    [] OTHER -> {}

\* The load requests a step issues.
LoadRequestsIssued == {q \in net' \ net : q.kind = "load" /\ q.cap # None}

C22_OnlyTheMethodsParameters ==
  [][\A q \in LoadRequestsIssued :
       LET b == q.cap[1] IN
       /\ b.file = load.file[1]
       /\ b.loading_method = load.loadingMethod
       /\ b.text_config # None <=> b.loading_method = "text"
       /\ b.csv_config # None <=> b.loading_method = "csv"
       /\ b.strategy # None <=> b.loading_method = "unstructured"
       /\ b.chunking_options # None <=> b.loading_method = "unstructured"
       /\ b.text_config \in {None, Some(load.textConfig)}
       /\ b.csv_config \in {None, Some(load.csvConfig)}
       /\ b.strategy \in {None, Some(load.unstructuredConfig.strategy)}]_vars

\* A text request was submitted: it carries text_config and none of the
\* other parameter entries.
C22_Witness ==
  \E q \in net :
    /\ q.kind = "load"
    /\ q.cap # None
    /\ q.cap[1].loading_method = "text"
    /\ q.cap[1].text_config # None
    /\ q.cap[1].csv_config = None
    /\ q.cap[1].strategy = None
    /\ q.cap[1].chunking_options = None

\* C29 (as stated): the languages a load request carries in chunking_options
\* are a list of language codes, with the chosen language as first element.
C29_LanguagesIsAList ==
  \A q \in net :
    (q.kind = "load" /\ q.cap # None /\ q.cap[1].chunking_options # None) =>
      LET languages == q.cap[1].chunking_options[1].languages IN
      /\ languages.isArray
      /\ Len(languages.items) >= 1
      /\ languages.items[1] \in LanguageOptions

\* C30 (as stated): whenever the 'first row is header' box is shown unchecked
\* at a submit, the hasHeader the request carries in csv_config is the empty
\* auto-detect value, also after the box was checked and unchecked again.
C30_UncheckedHeaderIsAutoDetect ==
  [][\A q \in LoadRequestsIssued :
       (q.cap[1].csv_config # None /\ load.csvConfig.hasHeader # "true")
         => q.cap[1].csv_config[1].hasHeader = ""]_vars

\* C28: on the Parse page, after any file selections and changes of the two
\* selects, the loading method and the parsing option held are among those
\* configured for the file type held (pdf or md), and every parse request
\* carries a file_type with a loading_method and a parsing_option configured
\* for it, the ones held when it was issued.
ParseConfigured(ft, method, option) ==
  /\ ft \in {"pdf", "md"}
  /\ method \in Elems(ParseLoadingMethods(ft))
  /\ option \in Elems(ParseParsingOptions(ft))

ParseRequestsIssued == {q \in net' \ net : q.kind = "parse" /\ q.cap # None}

C28_ParseTripleIsConsistent ==
  [][/\ ParseConfigured(parse.fileType, parse.loadingMethod, parse.parsingOption)'
     /\ \A q \in ParseRequestsIssued :
          LET b == q.cap[1] IN
          /\ b.file_type = parse.fileType
          /\ b.loading_method = parse.loadingMethod
          /\ b.parsing_option = parse.parsingOption
          /\ ParseConfigured(b.file_type, b.loading_method, b.parsing_option)]_vars

\* A parse request of a markdown file with the by_sections option is in
\* flight.
C28_Witness ==
  \E q \in net :
    /\ q.kind = "parse"
    /\ q.cap # None
    /\ q.cap[1].file.ext = "md"
    /\ q.cap[1].file_type = "md"
    /\ q.cap[1].loading_method = "markdown"
    /\ q.cap[1].parsing_option = "by_sections"

=============================================================================
